---- MODULE Spec2Model ----
(***************************************************************************)
(* A model of the ulisp compiler back ends (jolisper/ulisp):               *)
(*   - Scope, the symbol table of the SSA-IR back end                      *)
(*     (src/backend/llvm/scope/mod.rs, and the older src/backend/llvm.rs), *)
(*   - the SSA-IR back end (src/backend/llvm/mod.rs),                      *)
(*   - the register-machine back end (src/backend/x86.rs),                 *)
(*   - build: write the text, run the assembler, run the linker.           *)
(* Names are sequences of one-character strings, so that safe_name's       *)
(* replacement of '-' and the decimal suffixes of register/symbol are      *)
(* computed as the code computes them.                                     *)
(***************************************************************************)
EXTENDS Integers, Sequences, FiniteSets, TLC

VARIABLES
    prog,     \* the AST handed to both back ends (parser::Expression)
    be,       \* per back end: the pipeline position and the Backend's state
    impl,     \* which Scope implementation the scope lineage uses
    scopes,   \* the Scope values of one lineage (scope 1 and its forks)
    hist,     \* per Scope value: the target names returned to it, in order
    kinds     \* per Scope value: which call returned each name of hist

vars == <<prog, be, impl, scopes, hist, kinds>>

----------------------------------------------------------------------------
(* Bounds of the model.                                                    *)

\* register/symbol calls made on one scope lineage
MaxScopeOps == 4
\* Scope values in one lineage (the root and its forks)
MaxScopes == 2
\* integer literals of generated programs range over -1 .. MaxLit
MaxLit == 2
\* instructions the register machine executes before it is declared diverging
MaxSteps == 200
\* nested calls the SSA machine follows before it is declared diverging
MaxCallDepth == 4

----------------------------------------------------------------------------
(* Strings.                                                                *)

DigitChar == <<"0", "1", "2", "3", "4", "5", "6", "7", "8", "9">>

RECURSIVE Digits(_)
\* format!("{}", n) for n >= 0
Digits(n) ==
    IF n < 10 THEN <<DigitChar[n + 1]>>
    ELSE Digits(n \div 10) \o <<DigitChar[(n % 10) + 1]>>

\* str::replace("-", "_")
Replace(s) == [i \in 1..Len(s) |-> IF s[i] = "-" THEN "_" ELSE s[i]]

safe_name(symbol_name) ==
    IF symbol_name = <<"-">> THEN symbol_name ELSE Replace(symbol_name)

----------------------------------------------------------------------------
(* Scope: locals: HashMap<String, String> as a function from source names  *)
(* to target names.                                                        *)

Scope_new == [k \in {} |-> <<>>]

Insert(locals, k, v) ==
    [x \in (DOMAIN locals) \cup {k} |-> IF x = k THEN v ELSE locals[x]]

\* Scope::get: Some(target) or None
Some(x) == [some |-> TRUE, v |-> x]
None == [some |-> FALSE, v |-> <<>>]
Scope_get(locals, local) ==
    IF local \in DOMAIN locals THEN Some(locals[local]) ELSE None

RECURSIVE RegisterLoop(_, _, _, _)
\* scope/mod.rs: while self.locals.get(&copy).is_some()
\*                 { copy = format!("{}{}", local, n); n += 1; }
RegisterLoop(locals, local, copy, n) ==
    IF copy \in DOMAIN locals
    THEN RegisterLoop(locals, local, local \o Digits(n), n + 1)
    ELSE copy

RECURSIVE RegisterLoopOld(_, _, _, _)
\* llvm.rs: while self.locals.get(&copy).is_some()
\*            { n += 1; copy = format!("{}{}", local, n); }
RegisterLoopOld(locals, local, copy, n) ==
    IF copy \in DOMAIN locals
    THEN RegisterLoopOld(locals, local, local \o Digits(n + 1), n + 1)
    ELSE copy

\* Scope::register of scope/mod.rs: the chosen target name
Scope_register_name(locals, local) ==
    RegisterLoop(locals, local, safe_name(local), 1)

\* Scope::register of llvm.rs: the chosen target name
ScopeOld_register_name(locals, local) ==
    RegisterLoopOld(locals, local, Replace(local), 1)

\* Scope::register: the scope after the call and the name returned
Scope_register(locals, local) ==
    LET copy == Scope_register_name(locals, local)
    IN  [scope |-> Insert(locals, local, copy), ret |-> copy]

ScopeOld_register(locals, local) ==
    LET copy == ScopeOld_register_name(locals, local)
    IN  [scope |-> Insert(locals, local, copy), ret |-> copy]

SymPrefix == <<"s", "y", "m">>

\* Scope::symbol(None) of scope/mod.rs: nth = len + 1
Scope_symbol(locals) ==
    Scope_register(locals, SymPrefix \o Digits(Cardinality(DOMAIN locals) + 1))

\* Scope::symbol of llvm.rs: nth = len
ScopeOld_symbol(locals) ==
    ScopeOld_register(locals, SymPrefix \o Digits(Cardinality(DOMAIN locals)))

\* Scope::copy: a deep copy, an independent value
Scope_copy(locals) == locals

----------------------------------------------------------------------------
(* The scope lineage: register, symbol and copy applied to one Scope and   *)
(* to the scopes forked from it.                                           *)

N_a == <<"a">>
N_b == <<"b">>
N_a1 == <<"a", "1">>
N_a_b == <<"a", "_", "b">>
N_a_minus_b == <<"a", "-", "b">>
N_sym3 == <<"s", "y", "m", "3">>

ScopeNames == {N_a, N_a1, N_a_b, N_a_minus_b, N_sym3}

ScopeImpls == {"mod", "old"}

RegisterIn(i, locals, local) ==
    IF i = "mod" THEN Scope_register(locals, local)
    ELSE ScopeOld_register(locals, local)

SymbolIn(i, locals) ==
    IF i = "mod" THEN Scope_symbol(locals) ELSE ScopeOld_symbol(locals)

ScopeRegister(i, local) ==
    /\ i \in 1..Len(scopes)
    /\ Len(hist[i]) < MaxScopeOps
    /\ LET r == RegisterIn(impl, scopes[i], local)
       IN  /\ scopes' = [scopes EXCEPT ![i] = r.scope]
           /\ hist' = [hist EXCEPT ![i] = Append(@, r.ret)]
           /\ kinds' = [kinds EXCEPT ![i] = Append(@, "register")]
    /\ UNCHANGED <<prog, be, impl>>

ScopeSymbol(i) ==
    /\ i \in 1..Len(scopes)
    /\ Len(hist[i]) < MaxScopeOps
    /\ LET r == SymbolIn(impl, scopes[i])
       IN  /\ scopes' = [scopes EXCEPT ![i] = r.scope]
           /\ hist' = [hist EXCEPT ![i] = Append(@, r.ret)]
           /\ kinds' = [kinds EXCEPT ![i] = Append(@, "symbol")]
    /\ UNCHANGED <<prog, be, impl>>

\* copy(): the fork starts with the parent's bindings; the names returned so
\* far in the lineage are part of the fork's history
ScopeCopy(i) ==
    /\ i \in 1..Len(scopes)
    /\ Len(scopes) < MaxScopes
    /\ scopes' = Append(scopes, Scope_copy(scopes[i]))
    /\ hist' = Append(hist, hist[i])
    /\ kinds' = Append(kinds, kinds[i])
    /\ UNCHANGED <<prog, be, impl>>

----------------------------------------------------------------------------
(* parser::Expression.  Every node carries all four fields; the ones its   *)
(* variant does not have are empty.                                        *)

Node(tag, name, value, items) ==
    [tag |-> tag, name |-> name, value |-> value, items |-> items]

List(items) == Node("List", <<>>, 0, items)
Symbol(name) == Node("Symbol", name, 0, <<>>)
Integer(value) == Node("Integer", <<>>, value, <<>>)
Float == Node("Float", <<>>, 0, <<>>)
Boolean == Node("Boolean", <<>>, 0, <<>>)

\* vec.split_at(1).1
Rest(s) == SubSeq(s, 2, Len(s))

----------------------------------------------------------------------------
(* The state a Backend threads through lowering: the output buffer, the    *)
(* scope the current frame lowers in, and whether a panic! has unwound the *)
(* compilation.  at is the function that panicked and mark the length of   *)
(* the buffer when it was entered; ev and defs record what was lowered.    *)

Backend_new ==
    [out |-> <<>>, status |-> "ok", panic |-> "", at |-> "", mark |-> 0,
     scope |-> Scope_new, ev |-> <<>>, defs |-> <<>>]

\* Backend::emit: append one line (indentation is not modelled)
Emit(R, line) == [R EXCEPT !.out = Append(@, line)]

\* panic!(msg) raised in the function at: the first panic unwinds, nothing
\* after it runs
Panic(R, at, msg, mark) ==
    IF R.status = "panic" THEN R
    ELSE [R EXCEPT !.status = "panic", !.panic = msg, !.at = at,
                   !.mark = mark]

\* a record of a lowering step: kind, the name it is about, two counts and
\* the length of the buffer when the step began.
\*   symref  a Symbol is lowered; n = 1 when scope binds it, else 0
\*   arith   +, - or * is applied to n argument expressions
\*   call    a call instruction is emitted for a call with n arguments;
\*           m = 1 when the operator is bound in scope or a builtin, else 0
\*   undefined function   a call of an unbound operator is refused
Log(R, kind, name, n, m) ==
    [R EXCEPT !.ev = Append(@, [kind |-> kind, name |-> name, n |-> n, m |-> m,
                                pre |-> Len(R.out)])]

N_def == <<"d", "e", "f">>
N_module == <<"m", "o", "d", "u", "l", "e">>
N_plus == <<"+">>
N_minus == <<"-">>
N_times == <<"*">>
N_main == <<"m", "a", "i", "n">>
N_program_main ==
    <<"p", "r", "o", "g", "r", "a", "m", "_", "m", "a", "i", "n">>
N_plus_label == <<"p", "l", "u", "s">>

ArithNames == {N_plus, N_minus, N_times}

----------------------------------------------------------------------------
(* The register-machine back end, src/backend/x86.rs.                      *)
(* A line of its output: op, a destination register, a source operand      *)
(* (k = "reg": register src, k = "imm": literal imm), and for labels and   *)
(* calls the label name.  nargs (calls only) is the number of argument     *)
(* registers the call sequence loaded; it is not part of the text.         *)

XLine(op, dst, k, src, imm, name, nargs) ==
    [op |-> op, dst |-> dst, k |-> k, src |-> src, imm |-> imm,
     name |-> name, nargs |-> nargs]

X_text(t) == XLine("text", t, "", "", 0, <<>>, 0)
X_label(name) == XLine("label", "", "", "", 0, name, 0)
X_push(r) == XLine("push", "", "reg", r, 0, <<>>, 0)
X_pop(r) == XLine("pop", r, "", "", 0, <<>>, 0)
X_mov(d, r) == XLine("mov", d, "reg", r, 0, <<>>, 0)
X_movi(d, v) == XLine("mov", d, "imm", "", v, <<>>, 0)
X_add(d, r) == XLine("add", d, "reg", r, 0, <<>>, 0)
X_call(name, n) == XLine("call", "", "", "", 0, name, n)
X_ret == XLine("ret", "", "", "", 0, <<>>, 0)
X_syscall == XLine("syscall", "", "", "", 0, <<>>, 0)

PARAM_REGISTERS == <<"rdi", "rsi", "rdx">>
LOCAL_REGISTERS == <<"rbx", "rbp", "r12">>

\* X86::new: primitive_functions has def and module
X86_primitive_functions == {N_def, N_module}

\* X86::new: builtin_functions maps + to plus;
\* builtin_functions.get(function).unwrap_or(function)
X86_call_target(function) ==
    IF function = N_plus THEN N_plus_label ELSE function

X86_emit_prefix(R) ==
    LET text == <<X_text("; Generated with ulisp"), X_text(";"),
                  X_text("; To compile run the following:"),
                  X_text("; $ nasm -f elf64 program.asm"),
                  X_text("; $ gcc -o program program.o"), X_text(""),
                  X_text("global main"), X_text("SECTION .text"),
                  X_label(N_plus_label), X_add("rdi", "rsi"),
                  X_mov("rax", "rdi"), X_ret>>
    IN  [R EXCEPT !.out = @ \o text]

\* cfg!(darwin) is false on the modelled target: exit is syscall 60
X86_emit_postfix(R) ==
    [R EXCEPT !.out = @ \o <<X_label(N_main), X_call(N_program_main, 0),
                             X_mov("rdi", "rax"), X_movi("rax", 60),
                             X_syscall>>]

\* split_function: the list's first item must be a Symbol
X86_split_function(list) ==
    IF list.tag # "List"
    THEN [ok |-> FALSE, msg |-> "Expression is not a list item",
          function |-> <<>>, args |-> <<>>]
    ELSE IF Len(list.items) = 0
    THEN [ok |-> FALSE, msg |-> "index out of bounds",
          function |-> <<>>, args |-> <<>>]
    ELSE IF list.items[1].tag # "Symbol"
    THEN [ok |-> FALSE, msg |-> "First list item is not a symbol",
          function |-> <<>>, args |-> <<>>]
    ELSE [ok |-> TRUE, msg |-> "", function |-> list.items[1].name,
          args |-> Rest(list.items)]

\* the name a def gives its label: '-' replaced, main renamed
X86_def_name(name) ==
    IF Replace(name) = N_main THEN N_program_main ELSE Replace(name)

SplitDefResult(ok, msg, name, params, body) ==
    [ok |-> ok, msg |-> msg, name |-> name, params |-> params, body |-> body]

\* does the third item of a def pass split_def_expression's test?
X86_body_ok_Any(body) == TRUE

X86_body_ok(body) == body.tag = "List"

\* split_def_expression: the tuple's fields are evaluated in order, each
\* indexing args (a missing item is an index-out-of-bounds panic)
X86_split_def_expression(args) ==
    IF Len(args) < 1
    THEN SplitDefResult(FALSE, "index out of bounds", <<>>, <<>>, Float)
    ELSE IF args[1].tag # "Symbol"
    THEN SplitDefResult(FALSE, "First item must be a symbol in def statement",
                        <<>>, <<>>, Float)
    ELSE IF Len(args) < 2
    THEN SplitDefResult(FALSE, "index out of bounds", <<>>, <<>>, Float)
    ELSE IF args[2].tag # "List"
    THEN SplitDefResult(FALSE, "Second item must be a list in def statement",
                        <<>>, <<>>, Float)
    ELSE IF Len(args) < 3
    THEN SplitDefResult(FALSE, "index out of bounds", <<>>, <<>>, Float)
    ELSE IF ~X86_body_ok(args[3])
    THEN SplitDefResult(FALSE, "Third item must be a list in def statement",
                        <<>>, <<>>, Float)
    ELSE SplitDefResult(TRUE, "", X86_def_name(args[1].name), args[2].items,
                        args[3])

\* the Symbol arm of compile_expression with the emit moved before the lookup
X86_lower_symbol_EmitFirst(symbol, destination, R) ==
    LET R1 == Log(R, "symref", symbol,
                  IF symbol \in DOMAIN R.scope THEN 1 ELSE 0, 0)
        R2 == Emit(R1, X_mov(destination.v, "rax"))
    IN  IF symbol \notin DOMAIN R.scope
        THEN Panic(R2, "compile_expression", "undefined variable", Len(R.out))
        ELSE R2

\* the Symbol arm of compile_expression and the emit after the match
X86_lower_symbol(symbol, destination, R) ==
    LET R1 == Log(R, "symref", symbol,
                  IF symbol \in DOMAIN R.scope THEN 1 ELSE 0, 0)
    IN  IF symbol \notin DOMAIN R.scope
        THEN Panic(R1, "compile_expression", "undefined variable",
                   Len(R.out))
        ELSE IF ~destination.some
        THEN Panic(R1, "compile_expression", "unwrap on None", Len(R.out))
        ELSE Emit(R1, X_mov(destination.v, R.scope[symbol]))

\* the Integer arm of compile_expression and the emit after the match
X86_lower_integer(int, destination, R) ==
    IF ~destination.some
    THEN Panic(R, "compile_expression", "unwrap on None", Len(R.out))
    ELSE Emit(R, X_movi(destination.v, int))

RECURSIVE X86_push_loop(_, _, _, _)
\* for (i, _) in args.iter().enumerate() { emit push PARAM_REGISTERS[i] }
X86_push_loop(n, i, mark, R) ==
    IF i > n \/ R.status = "panic" THEN R
    ELSE IF i > Len(PARAM_REGISTERS)
    THEN Panic(R, "compile_call", "index out of bounds", mark)
    ELSE X86_push_loop(n, i + 1, mark, Emit(R, X_push(PARAM_REGISTERS[i])))

RECURSIVE X86_pop_loop_Forward(_, _, _, _)
\* the pops emitted in the order of the pushes
X86_pop_loop_Forward(regs, n, i, R) ==
    IF i > n THEN R
    ELSE X86_pop_loop_Forward(regs, n, i + 1, Emit(R, X_pop(regs[i])))

RECURSIVE X86_pop_loop(_, _, _, _)
\* for (i, _) in ... { emit pop regs[len - i - 1] }, i counted from 1 here
X86_pop_loop(regs, n, i, R) ==
    IF i > n THEN R
    ELSE X86_pop_loop(regs, n, i + 1, Emit(R, X_pop(regs[n - i + 1])))

\* the enclosing frame's scope once the body is lowered: child_scope is a
\* clone that goes out of scope at the end of compile_define
X86_leave_define_Leak(outer, child) == child

X86_leave_define(outer, child) == outer

RECURSIVE X86_compile_expression(_, _, _)
RECURSIVE X86_compile_call(_, _, _, _)
RECURSIVE X86_compile_define(_, _, _)
RECURSIVE X86_compile_module(_, _, _)
RECURSIVE X86_args_loop(_, _, _)
RECURSIVE X86_params_loop(_, _, _, _)
RECURSIVE X86_module_loop(_, _, _)

X86_compile_expression(arg, destination, R) ==
    IF R.status = "panic" THEN R
    ELSE IF arg.tag = "List"
    THEN LET sf == X86_split_function(arg)
         IN  IF sf.ok
             THEN X86_compile_call(sf.function, sf.args, destination, R)
             ELSE Panic(R, "split_function", sf.msg, Len(R.out))
    ELSE IF arg.tag = "Symbol"
    THEN X86_lower_symbol(arg.name, destination, R)
    ELSE IF arg.tag = "Integer"
    THEN X86_lower_integer(arg.value, destination, R)
    ELSE Panic(R, "compile_expression", "not implemented", Len(R.out))

\* for (i, arg) in args { compile_expression(arg, Some(PARAM_REGISTERS[i])) }
X86_args_loop(args, i, R) ==
    IF i > Len(args) \/ R.status = "panic" THEN R
    ELSE X86_args_loop(args, i + 1,
             X86_compile_expression(args[i], Some(PARAM_REGISTERS[i]), R))

X86_compile_call(function, args, destination, R) ==
    IF function \in X86_primitive_functions
    THEN IF function = N_def THEN X86_compile_define(args, destination, R)
         ELSE X86_compile_module(args, destination, R)
    ELSE
    LET n == Len(args)
        R0 == IF function \in ArithNames
              THEN Log(R, "arith", function, n, 0) ELSE R
        R1 == X86_push_loop(n, 1, Len(R.out), R0)
        R2 == X86_args_loop(args, 1, R1)
        R3 == Emit(Log(R2, "call", function, n,
                       IF function \in DOMAIN R.scope \/ function = N_plus
                       THEN 1 ELSE 0),
                   X_call(X86_call_target(function), n))
        R4 == X86_pop_loop(PARAM_REGISTERS, n, 1, R3)
    IN  IF R2.status = "panic" THEN R2
        ELSE IF destination.some
        THEN Emit(R4, X_mov(destination.v, "rax"))
        ELSE R4

\* the register child_scope.insert binds the i-th parameter to, were it the
\* preserved register the prologue has just copied the argument into
X86_param_binding_Local(register, local) == local

\* child_scope.insert(name.to_string(), register): the argument register
X86_param_binding(register, local) == register

\* for (i, param) in params: push the local register, copy the argument
\* register into it, bind the parameter name to the argument register
X86_params_loop(params, i, mark, R) ==
    IF i > Len(params) \/ R.status = "panic" THEN R
    ELSE IF params[i].tag # "Symbol"
    THEN Panic(R, "compile_define", "Function param must be a symbol", mark)
    ELSE IF i > Len(PARAM_REGISTERS)
    THEN Panic(R, "compile_define", "index out of bounds", mark)
    ELSE LET register == PARAM_REGISTERS[i]
             local == LOCAL_REGISTERS[i]
             R1 == Emit(Emit(R, X_push(local)), X_mov(local, register))
         IN  X86_params_loop(params, i + 1, mark,
                 [R1 EXCEPT !.scope =
                     Insert(@, params[i].name,
                            X86_param_binding(register, local))])

X86_compile_define(args, destination, R) ==
    LET sd == X86_split_def_expression(args)
        mark == Len(R.out)
    IN  IF ~sd.ok THEN Panic(R, "split_def_expression", sd.msg, mark)
        ELSE
        LET R1 == Emit(R, X_label(sd.name))
            \* let mut child_scope = scope.clone()
            R2 == X86_params_loop(sd.params, 1, mark, R1)
            R3 == X86_compile_expression(sd.body, Some("rax"), R2)
            R4 == X86_pop_loop(LOCAL_REGISTERS, Len(sd.params), 1, R3)
            R5 == Emit(R4, X_ret)
        IN  IF R3.status = "panic" THEN R3
            ELSE [R5 EXCEPT
                    !.scope = X86_leave_define(R.scope, R3.scope),
                    !.defs = Append(@, [name |-> args[1].name,
                                        target |-> sd.name,
                                        nargs |-> Len(args),
                                        params |-> sd.params,
                                        before |-> R.scope,
                                        child |-> R3.scope,
                                        after |-> X86_leave_define(R.scope,
                                                                   R3.scope)])]

\* for expression in args { compile_expression(expression, Some("rax")) }
X86_module_loop(args, i, R) ==
    IF i > Len(args) \/ R.status = "panic" THEN R
    ELSE X86_module_loop(args, i + 1,
             X86_compile_expression(args[i], Some("rax"), R))

X86_compile_module(args, destination, R) ==
    LET R1 == X86_module_loop(args, 1, R)
    IN  IF R1.status = "panic" THEN R1
        ELSE IF destination.some /\ destination.v # "rax"
        THEN Emit(R1, X_mov(destination.v, "rax"))
        ELSE R1

\* Backend::compile for X86
X86_compile(ast) ==
    LET R1 == X86_emit_prefix(Backend_new)
        R2 == X86_compile_expression(ast, None, R1)
    IN  IF R2.status = "panic" THEN R2 ELSE X86_emit_postfix(R2)

----------------------------------------------------------------------------
(* The SSA-IR back end, src/backend/llvm/mod.rs.                           *)
(* A line of its output:                                                   *)
(*   define  define i32 @name(i32 %args[1], ...) {                         *)
(*   copy    %dst = add i32 %a, 0                                          *)
(*   const   %dst = add i32 v, 0                                           *)
(*   bin     %dst = f i32 %a, %b                                           *)
(*   call    %dst = call i32 @name(i32 %args[1], ...)                      *)
(*   ret     ret i32 %a                                                    *)
(*   end     }                                                             *)

LLine(op, dst, f, a, b, v, name, args) ==
    [op |-> op, dst |-> dst, f |-> f, a |-> a, b |-> b, v |-> v,
     name |-> name, args |-> args]

L_define(name, params) == LLine("define", <<>>, "", <<>>, <<>>, 0, name, params)
L_copy(dst, a) == LLine("copy", dst, "", a, <<>>, 0, <<>>, <<>>)
L_const(dst, v) == LLine("const", dst, "", <<>>, <<>>, v, <<>>, <<>>)
L_bin(dst, f, a, b) == LLine("bin", dst, f, a, b, 0, <<>>, <<>>)
L_call(dst, name, args) == LLine("call", dst, "", <<>>, <<>>, 0, name, args)
L_ret(a) == LLine("ret", <<>>, "", a, <<>>, 0, <<>>, <<>>)
L_end == LLine("end", <<>>, "", <<>>, <<>>, 0, <<>>, <<>>)

\* LLVM::new: primitive_functions has def, module, +, -, *
LLVM_primitive_functions == {N_def, N_module, N_plus, N_minus, N_times}

\* the instruction compile_operation was built with
LLVM_operation(function) ==
    IF function = N_plus THEN "add"
    ELSE IF function = N_minus THEN "sub" ELSE "mul"

\* split_function: the operator name goes through safe_name
LLVM_split_function(list) ==
    IF list.tag # "List"
    THEN [ok |-> FALSE, msg |-> "Expression is not a list item",
          function |-> <<>>, args |-> <<>>]
    ELSE IF Len(list.items) = 0
    THEN [ok |-> FALSE, msg |-> "index out of bounds",
          function |-> <<>>, args |-> <<>>]
    ELSE IF list.items[1].tag # "Symbol"
    THEN [ok |-> FALSE, msg |-> "First list item is not a symbol",
          function |-> <<>>, args |-> <<>>]
    ELSE [ok |-> TRUE, msg |-> "", function |-> safe_name(list.items[1].name),
          args |-> Rest(list.items)]

\* does the third item of a def pass split_def_expression's test?
LLVM_body_ok_Any(body) == TRUE

LLVM_body_ok(body) == body.tag = "List"

\* split_def_expression of llvm/mod.rs
LLVM_split_def_expression(args) ==
    IF Len(args) < 1
    THEN SplitDefResult(FALSE, "index out of bounds", <<>>, <<>>, Float)
    ELSE IF args[1].tag # "Symbol"
    THEN SplitDefResult(FALSE, "First item must be a symbol in def statement",
                        <<>>, <<>>, Float)
    ELSE IF Len(args) < 2
    THEN SplitDefResult(FALSE, "index out of bounds", <<>>, <<>>, Float)
    ELSE IF args[2].tag # "List"
    THEN SplitDefResult(FALSE, "Second item must be a list in def statement",
                        <<>>, <<>>, Float)
    ELSE IF Len(args) < 3
    THEN SplitDefResult(FALSE, "index out of bounds", <<>>, <<>>, Float)
    ELSE IF ~LLVM_body_ok(args[3])
    THEN SplitDefResult(FALSE, "Third item must be a list in def statement",
                        <<>>, <<>>, Float)
    ELSE SplitDefResult(TRUE, "", safe_name(args[1].name), args[2].items,
                        args[3])

\* the Symbol arm of compile_expression with the emit moved before the lookup
LLVM_lower_symbol_EmitFirst(symbol, destination, R) ==
    LET R1 == Log(R, "symref", symbol,
                  IF symbol \in DOMAIN R.scope THEN 1 ELSE 0, 0)
        R2 == Emit(R1, L_copy(destination.v, symbol))
    IN  IF symbol \notin DOMAIN R.scope
        THEN Panic(R2, "compile_expression", "undefined variable", Len(R.out))
        ELSE R2

\* the Symbol arm of compile_expression
LLVM_lower_symbol(symbol, destination, R) ==
    LET R1 == Log(R, "symref", symbol,
                  IF symbol \in DOMAIN R.scope THEN 1 ELSE 0, 0)
    IN  IF symbol \notin DOMAIN R.scope
        THEN Panic(R1, "compile_expression", "undefined variable",
                   Len(R.out))
        ELSE IF ~destination.some
        THEN Panic(R1, "compile_expression", "unwrap on None", Len(R.out))
        ELSE Emit(R1, L_copy(destination.v, R.scope[symbol]))

\* the Integer arm of compile_expression
LLVM_lower_integer(int, destination, R) ==
    IF ~destination.some
    THEN Panic(R, "compile_expression", "unwrap on None", Len(R.out))
    ELSE Emit(R, L_const(destination.v, int))

\* scope.symbol() on the frame's scope: the state after, and the name
LLVM_symbol(R) ==
    LET r == Scope_symbol(R.scope)
    IN  [R |-> [R EXCEPT !.scope = r.scope], ret |-> r.ret]

\* the enclosing frame's scope once the body is lowered: child_scope is a
\* copy that goes out of scope at the end of compile_define
LLVM_leave_define_Leak(outer, child) == child

LLVM_leave_define(outer, child) == outer

RECURSIVE LLVM_compile_expression(_, _, _)
RECURSIVE LLVM_compile_call(_, _, _, _)
RECURSIVE LLVM_compile_define(_, _, _)
RECURSIVE LLVM_compile_module(_, _, _)
RECURSIVE LLVM_compile_operation(_, _, _, _)
RECURSIVE LLVM_args_loop(_, _, _, _)
RECURSIVE LLVM_params_loop(_, _, _, _, _)
RECURSIVE LLVM_module_loop(_, _, _)

LLVM_compile_expression(arg, destination, R) ==
    IF R.status = "panic" THEN R
    ELSE IF arg.tag = "List"
    THEN LET sf == LLVM_split_function(arg)
         IN  IF sf.ok
             THEN LLVM_compile_call(sf.function, sf.args, destination, R)
             ELSE Panic(R, "split_function", sf.msg, Len(R.out))
    ELSE IF arg.tag = "Symbol"
    THEN LLVM_lower_symbol(arg.name, destination, R)
    ELSE IF arg.tag = "Integer"
    THEN LLVM_lower_integer(arg.value, destination, R)
    ELSE Panic(R, "compile_expression", "not implemented", Len(R.out))

\* args.iter().map(|arg| { sym = scope.symbol(); compile_expression(arg,
\* Some(&sym), scope); sym }): acc is the list of temporaries so far.
\* The result carries acc in its field args.
LLVM_args_loop(args, i, acc, R) ==
    IF i > Len(args) \/ R.status = "panic" THEN [R |-> R, args |-> acc]
    ELSE LET s == LLVM_symbol(R)
         IN  LLVM_args_loop(args, i + 1, Append(acc, s.ret),
                 LLVM_compile_expression(args[i], Some(s.ret), s.R))

LLVM_compile_call(function, args, destination, R) ==
    IF function \in LLVM_primitive_functions
    THEN IF function = N_def THEN LLVM_compile_define(args, destination, R)
         ELSE IF function = N_module
         THEN LLVM_compile_module(args, destination, R)
         ELSE LLVM_compile_operation(function, args, destination, R)
    ELSE
    LET mark == Len(R.out)
        valid_function == Scope_get(R.scope, function)
    IN  IF ~valid_function.some
        THEN Panic(Log(R, "undefined function", function, Len(args), 0),
                   "compile_call", "undefined function", mark)
        ELSE
        LET la == LLVM_args_loop(args, 1, <<>>, R)
        IN  IF la.R.status = "panic" THEN la.R
            ELSE IF ~destination.some
            THEN Panic(la.R, "compile_call", "unwrap on None", mark)
            ELSE Emit(Log(la.R, "call", function, Len(args), 1),
                      L_call(destination.v, valid_function.v, la.args))

\* the closure compile_operation returns
LLVM_compile_operation(function, expressions, destination, R) ==
    LET mark == Len(R.out)
        R0 == Log(R, "arith", function, Len(expressions), 0)
    IN  IF Len(expressions) < 2
        THEN Panic(R0, "compile_operation", "index out of bounds", mark)
        ELSE
        LET s1 == LLVM_symbol(R0)
            s2 == LLVM_symbol(s1.R)
            R1 == LLVM_compile_expression(expressions[1], Some(s1.ret), s2.R)
            R2 == LLVM_compile_expression(expressions[2], Some(s2.ret), R1)
        IN  IF R2.status = "panic" THEN R2
            ELSE IF ~destination.some
            THEN Panic(R2, "compile_operation", "unwrap on None", mark)
            ELSE Emit(R2, L_bin(destination.v, LLVM_operation(function),
                                s1.ret, s2.ret))

\* params.iter().map(|param| child_scope.register(param_name))
LLVM_params_loop(params, i, acc, mark, R) ==
    IF i > Len(params) \/ R.status = "panic" THEN [R |-> R, args |-> acc]
    ELSE IF params[i].tag # "Symbol"
    THEN [R |-> Panic(R, "compile_define", "", mark), args |-> acc]
    ELSE LET r == Scope_register(R.scope, params[i].name)
         IN  LLVM_params_loop(params, i + 1, Append(acc, r.ret), mark,
                              [R EXCEPT !.scope = r.scope])

LLVM_compile_define(args, destination, R) ==
    LET sd == LLVM_split_def_expression(args)
        mark == Len(R.out)
    IN  IF ~sd.ok THEN Panic(R, "split_def_expression", sd.msg, mark)
        ELSE
        LET \* let safe_name = scope.register(name)
            reg == Scope_register(R.scope, sd.name)
            outer == reg.scope
            \* let mut child_scope = scope.copy()
            R1 == [R EXCEPT !.scope = Scope_copy(outer)]
            lp == LLVM_params_loop(sd.params, 1, <<>>, mark, R1)
            R2 == Emit(lp.R, L_define(reg.ret, lp.args))
            s == LLVM_symbol(R2)
            R3 == LLVM_compile_expression(sd.body, Some(s.ret), s.R)
            R4 == Emit(Emit(R3, L_ret(s.ret)), L_end)
        IN  IF lp.R.status = "panic" THEN lp.R
            ELSE IF R3.status = "panic" THEN R3
            ELSE [R4 EXCEPT
                    !.scope = LLVM_leave_define(outer, R3.scope),
                    !.defs = Append(@, [name |-> sd.name,
                                        target |-> reg.ret,
                                        nargs |-> Len(args),
                                        params |-> sd.params,
                                        before |-> R.scope,
                                        child |-> R3.scope,
                                        after |-> LLVM_leave_define(outer,
                                                                    R3.scope)])]

\* for expression in args { compile_expression(expression, None, scope) }
LLVM_module_loop(args, i, R) ==
    IF i > Len(args) \/ R.status = "panic" THEN R
    ELSE LLVM_module_loop(args, i + 1,
             LLVM_compile_expression(args[i], None, R))

LLVM_compile_module(args, destination, R) == LLVM_module_loop(args, 1, R)

\* Backend::compile for LLVM: the top-level destination is a fresh symbol
LLVM_compile(ast) ==
    LET s == LLVM_symbol(Backend_new)
    IN  LLVM_compile_expression(ast, Some(s.ret), s.R)

----------------------------------------------------------------------------
(* The abstract machines the generated programs run on.  A run ends with   *)
(* an exit status, with a fault (the tools reject the text, or control     *)
(* reaches something that is no instruction), or is cut off as diverging.  *)
(* The literals and nesting of the generated programs keep every value far *)
(* from 2^31, so no arithmetic wraps; an exit status is the low 8 bits.    *)

Exit(code) == [status |-> "exit", code |-> code % 256]
\* a function of the SSA machine returned the value v
Ret(v) == [status |-> "ret", code |-> v]
Fault == [status |-> "fault", code |-> 0]
Diverge == [status |-> "diverge", code |-> 0]

X86_Registers ==
    {"rax", "rdi", "rsi", "rdx", "rbx", "rbp", "r12"}

X86_labels(out, name) ==
    {i \in 1..Len(out) : out[i].op = "label" /\ out[i].name = name}

\* nasm accepts the text: every label is defined once and every call names
\* a defined label
X86_assembles(out) ==
    /\ \A i \in 1..Len(out) :
          out[i].op = "label" => Cardinality(X86_labels(out, out[i].name)) = 1
    /\ \A i \in 1..Len(out) :
          out[i].op = "call" => X86_labels(out, out[i].name) # {}

X86_operand(line, regs) == IF line.k = "imm" THEN line.imm ELSE regs[line.src]

\* the machine after the instruction at pc: the next pc, the registers and
\* the stack, which holds saved values (k = "val") and return addresses
\* (k = "ret"); halt is "" while the machine runs
X86_state(pc, regs, stack, halt) ==
    [pc |-> pc, regs |-> regs, stack |-> stack, halt |-> halt]

X86_step(out, m) ==
    LET line == out[m.pc]
        top == m.stack[Len(m.stack)]
        popped == SubSeq(m.stack, 1, Len(m.stack) - 1)
        halted == X86_state(m.pc, m.regs, m.stack, "fault")
    IN  CASE line.op \in {"text", "label"} ->
               X86_state(m.pc + 1, m.regs, m.stack, "")
          [] line.op = "push" ->
               X86_state(m.pc + 1, m.regs,
                         Append(m.stack, [k |-> "val", v |-> m.regs[line.src]]),
                         "")
          [] line.op = "pop" ->
               IF m.stack = <<>> \/ top.k # "val" THEN halted
               ELSE X86_state(m.pc + 1, [m.regs EXCEPT ![line.dst] = top.v],
                              popped, "")
          [] line.op = "mov" ->
               X86_state(m.pc + 1,
                         [m.regs EXCEPT ![line.dst] = X86_operand(line, m.regs)],
                         m.stack, "")
          [] line.op = "add" ->
               X86_state(m.pc + 1,
                         [m.regs EXCEPT
                            ![line.dst] = @ + X86_operand(line, m.regs)],
                         m.stack, "")
          [] line.op = "call" ->
               IF Cardinality(X86_labels(out, line.name)) # 1 THEN halted
               ELSE X86_state(CHOOSE i \in X86_labels(out, line.name) : TRUE,
                              m.regs,
                              Append(m.stack, [k |-> "ret", v |-> m.pc + 1]),
                              "")
          [] line.op = "ret" ->
               IF m.stack = <<>> \/ top.k # "ret" THEN halted
               ELSE X86_state(top.v, m.regs, popped, "")
          [] line.op = "syscall" ->
               IF m.regs["rax"] = 60
               THEN X86_state(m.pc, m.regs, m.stack, "exit")
               ELSE halted
          [] OTHER -> halted

RECURSIVE X86_run(_, _, _)
\* n instructions from m on (a halted machine stays as it is); the run is
\* split in halves so that the evaluation nests only log n deep
X86_run(out, m, n) ==
    IF n = 0 \/ m.halt # "" THEN m
    ELSE IF n = 1
    THEN IF m.pc < 1 \/ m.pc > Len(out)
         THEN X86_state(m.pc, m.regs, m.stack, "fault")
         ELSE X86_step(out, m)
    ELSE X86_run(out, X86_run(out, m, n \div 2), n - (n \div 2))

X86_result(m) ==
    IF m.halt = "exit" THEN Exit(m.regs["rdi"])
    ELSE IF m.halt = "fault" THEN Fault ELSE Diverge

\* the executable's run: the runtime enters at the global label main with
\* whatever the registers hold (garbage)
X86_execute(out, garbage) ==
    IF ~X86_assembles(out) \/ X86_labels(out, N_main) = {} THEN Fault
    ELSE X86_result(X86_run(out,
                 X86_state(CHOOSE i \in X86_labels(out, N_main) : TRUE,
                           [r \in X86_Registers |-> garbage], <<>>, ""),
                 MaxSteps))

\* The same run, observed.  Each activation (from a call to its ret) has a
\* frame: entry, the registers when it was entered; calls, the call
\* instructions it has executed; dirty, the argument registers it has
\* written and not restored by a pop; saved, for each argument register it
\* has pushed and not popped, whether the register was dirty at the push.
X86_ParamRegs == {PARAM_REGISTERS[i] : i \in 1..Len(PARAM_REGISTERS)}

X86_frame(entry, calls, dirty, saved) ==
    [entry |-> entry, calls |-> calls, dirty |-> dirty, saved |-> saved]

\* the machine, the frames of the activations in progress, and the reads
\* of parameters executed so far
X86_observed(m, frames, reads) ==
    [m |-> m, frames |-> frames, reads |-> reads]

\* mov PARAM_REGISTERS[i], <register a parameter is bound to>: the line the
\* Symbol arm emits for a parameter passed as the i-th argument of a call
\* (a def body is a List, so a Symbol is lowered only as an argument)
X86_reads_param(line) ==
    /\ line.op = "mov"
    /\ line.k = "reg"
    /\ line.dst \in X86_ParamRegs
    /\ line.src \in X86_ParamRegs

X86_observe_step(out, t) ==
    LET m == t.m
        line == out[m.pc]
        m2 == X86_step(out, m)
        d == Len(t.frames)
        top == t.frames[d]
        write == [t.frames EXCEPT ![d].dirty = @ \cup {line.dst}]
        read == [line |-> m.pc, reg |-> line.src, value |-> m.regs[line.src],
                 incoming |-> top.entry[line.src], calls |-> top.calls,
                 clean |-> line.src \notin top.dirty]
    IN  CASE m2.halt = "fault" -> X86_observed(m2, t.frames, t.reads)
          [] line.op = "push" /\ line.src \in X86_ParamRegs ->
               X86_observed(m2,
                   [t.frames EXCEPT
                      ![d].saved = Append(@, line.src \in top.dirty)],
                   t.reads)
          [] line.op = "pop" /\ line.dst \in X86_ParamRegs
                /\ top.saved # <<>> ->
               X86_observed(m2,
                   [t.frames EXCEPT
                      ![d].dirty = IF top.saved[Len(top.saved)]
                                   THEN @ \cup {line.dst}
                                   ELSE @ \ {line.dst},
                      ![d].saved = SubSeq(@, 1, Len(@) - 1)],
                   t.reads)
          [] line.op \in {"mov", "add"} /\ line.dst \in X86_ParamRegs ->
               X86_observed(m2, write,
                   IF X86_reads_param(line) THEN Append(t.reads, read)
                   ELSE t.reads)
          [] line.op = "call" ->
               X86_observed(m2,
                   Append([t.frames EXCEPT ![d].calls = @ + 1],
                          X86_frame(m.regs, 0, {}, <<>>)),
                   t.reads)
          [] line.op = "ret" /\ d > 1 ->
               X86_observed(m2, SubSeq(t.frames, 1, d - 1), t.reads)
          [] OTHER -> X86_observed(m2, t.frames, t.reads)

RECURSIVE X86_observe(_, _, _)
\* n instructions from t on, split in halves as X86_run is
X86_observe(out, t, n) ==
    IF n = 0 \/ t.m.halt # "" THEN t
    ELSE IF n = 1
    THEN IF t.m.pc < 1 \/ t.m.pc > Len(out)
         THEN [t EXCEPT !.m.halt = "fault"]
         ELSE X86_observe_step(out, t)
    ELSE X86_observe(out, X86_observe(out, t, n \div 2), n - (n \div 2))

\* the parameter reads of the executable's run
X86_reads(out, garbage) ==
    IF ~X86_assembles(out) \/ X86_labels(out, N_main) = {} THEN <<>>
    ELSE LET regs == [r \in X86_Registers |-> garbage]
         IN  X86_observe(out,
                 X86_observed(
                     X86_state(CHOOSE i \in X86_labels(out, N_main) : TRUE,
                               regs, <<>>, ""),
                     <<X86_frame(regs, 0, {}, <<>>)>>, <<>>),
                 MaxSteps).reads

LLVM_defines(out, name) ==
    {i \in 1..Len(out) : out[i].op = "define" /\ out[i].name = name}

RECURSIVE LLVM_inside(_, _)
\* is line i inside a function (after a define, up to its end)?
LLVM_inside(out, i) ==
    IF i < 1 THEN FALSE
    ELSE IF out[i].op = "define" THEN TRUE
    ELSE IF out[i].op = "end" THEN FALSE
    ELSE LLVM_inside(out, i - 1)

\* llc accepts the module's shape: functions are defined once and no
\* instruction stands outside a function
LLVM_module_ok(out) ==
    /\ \A i \in 1..Len(out) :
          out[i].op = "define"
              => Cardinality(LLVM_defines(out, out[i].name)) = 1
    /\ \A i \in 1..Len(out) :
          out[i].op \notin {"define", "end"} => LLVM_inside(out, i - 1)

LLVM_arith(f, x, y) ==
    IF f = "add" THEN x + y ELSE IF f = "sub" THEN x - y ELSE x * y

RECURSIVE LLVM_run(_, _, _, _)
\* the function body from line pc on, env binding the symbols assigned so
\* far; a symbol assigned twice or read before it is assigned is a fault
LLVM_run(out, pc, env, depth) ==
    IF pc < 1 \/ pc > Len(out) THEN Fault
    ELSE
    LET line == out[pc]
    IN  IF line.op = "ret"
        THEN IF line.a \in DOMAIN env THEN Ret(env[line.a]) ELSE Fault
        ELSE IF line.op \in {"define", "end"} THEN Fault
        ELSE IF line.dst \in DOMAIN env THEN Fault
        ELSE IF line.op = "const"
        THEN LLVM_run(out, pc + 1, Insert(env, line.dst, line.v), depth)
        ELSE IF line.op = "copy"
        THEN IF line.a \notin DOMAIN env THEN Fault
             ELSE LLVM_run(out, pc + 1, Insert(env, line.dst, env[line.a]),
                           depth)
        ELSE IF line.op = "bin"
        THEN IF line.a \notin DOMAIN env \/ line.b \notin DOMAIN env
             THEN Fault
             ELSE LLVM_run(out, pc + 1,
                      Insert(env, line.dst,
                             LLVM_arith(line.f, env[line.a], env[line.b])),
                      depth)
        ELSE IF line.op = "call"
        THEN LET ds == LLVM_defines(out, line.name)
             IN  IF Cardinality(ds) # 1 THEN Fault
                 ELSE
                 LET d == CHOOSE i \in ds : TRUE
                     params == out[d].args
                 IN  IF \/ Len(params) # Len(line.args)
                        \/ \E i \in 1..Len(line.args) :
                              line.args[i] \notin DOMAIN env
                        \/ \E i, j \in 1..Len(params) :
                              i # j /\ params[i] = params[j]
                     THEN Fault
                     ELSE IF depth = 0 THEN Diverge
                     ELSE
                     LET r == LLVM_run(out, d + 1,
                                  [p \in {params[i] : i \in 1..Len(params)} |->
                                     env[line.args[CHOOSE i \in 1..Len(params) :
                                                     params[i] = p]]],
                                  depth - 1)
                     IN  IF r.status # "ret" THEN r
                         ELSE LLVM_run(out, pc + 1,
                                       Insert(env, line.dst, r.code), depth)
        ELSE Fault

\* the executable's run: the runtime calls @main() and exits with the low
\* 8 bits of what it returns (a main that takes parameters is not run)
LLVM_execute(out) ==
    IF ~LLVM_module_ok(out) \/ LLVM_defines(out, N_main) = {} THEN Fault
    ELSE LET d == CHOOSE i \in LLVM_defines(out, N_main) : TRUE
         IN  IF out[d].args # <<>> THEN Fault
             ELSE LET r == LLVM_run(out, d + 1, Scope_new, MaxCallDepth)
                  IN  IF r.status = "ret" THEN Exit(r.code) ELSE r

----------------------------------------------------------------------------
(* The programs handed to the back ends.                                   *)

N_add == <<"a", "d", "d">>
N_inc == <<"i", "n", "c">>
N_twice == <<"t", "w", "i", "c", "e">>
N_rsum == <<"r", "s", "u", "m">>
N_my_fn == <<"m", "y", "-", "f", "n">>
N_f == <<"f">>
N_g == <<"g">>
N_x == <<"x">>
N_foo == <<"f", "o", "o">>
N_missing_name ==
    <<"m", "i", "s", "s", "i", "n", "g", "-", "n", "a", "m", "e">>
N_sym1 == <<"s", "y", "m", "1">>
N_sym4 == <<"s", "y", "m", "4">>
N_k == <<"k">>

Call(name, args) == List(<<Symbol(name)>> \o args)
Def(name, params, body) == Call(N_def, <<Symbol(name), List(params), body>>)
Module(forms) == Call(N_module, forms)

Lits == (-1..MaxLit) \cup {42, 300}

I1 == Integer(1)
I2 == Integer(2)

\* definitions that may precede main
Helpers ==
    { <<>>,
      <<Def(N_add, <<Symbol(N_a), Symbol(N_b)>>,
            Call(N_plus, <<Symbol(N_a), Symbol(N_b)>>))>>,
      <<Def(N_rsum, <<Symbol(N_a), Symbol(N_b)>>,
            Call(N_plus, <<Symbol(N_b), Symbol(N_a)>>))>>,
      <<Def(N_inc, <<Symbol(N_x)>>, Call(N_plus, <<Symbol(N_x), I1>>)),
        Def(N_twice, <<Symbol(N_x)>>,
            Call(N_plus, <<Call(N_inc, <<Symbol(N_x)>>), Symbol(N_x)>>))>>,
      <<Def(N_my_fn, <<Symbol(N_a)>>, Call(N_plus, <<Symbol(N_a), I1>>))>>,
      <<Def(N_f, <<Symbol(N_sym4)>>, Call(N_plus, <<Symbol(N_sym4), I1>>))>>,
      <<Def(N_inc, <<Symbol(N_x)>>, Call(N_plus, <<Symbol(N_x), I1>>)),
        Def(N_k, <<Symbol(N_a), Symbol(N_b)>>,
            Call(N_plus, <<Call(N_inc, <<Symbol(N_b)>>),
                           Call(N_plus, <<Symbol(N_a), Symbol(N_b)>>)>>))>> }

\* bodies of main
Bodies ==
    { Integer(n) : n \in Lits } \cup
    { Call(N_plus, <<Integer(n), I2>>) : n \in Lits } \cup
    { Symbol(N_missing_name),
      Call(N_times, <<Call(N_minus, <<Integer(10), Integer(4)>>), I2>>),
      Call(N_minus, <<I2, I1>>),
      Call(N_plus, <<Call(N_plus, <<I1, I2>>), I2>>),
      Call(N_plus, <<I1, I2, Integer(0)>>),
      Call(N_plus, <<I1>>),
      Call(N_plus, <<>>),
      Call(N_plus, <<I1, I2, I1, I2>>),
      Call(N_plus, <<Symbol(N_x), I1>>),
      Call(N_plus, <<Symbol(N_sym1), I1>>),
      Call(N_add, <<Integer(3), Integer(4)>>),
      Call(N_add, <<Integer(3)>>),
      Call(N_add, <<Integer(3), Integer(4), Integer(0)>>),
      Call(N_rsum, <<I1, I2>>),
      Call(N_inc, <<I1>>),
      Call(N_twice, <<I2>>),
      Call(N_my_fn, <<I1>>),
      Call(N_f, <<I1>>),
      Call(N_k, <<I1, I2>>),
      Call(N_foo, <<I1>>),
      Call(N_main, <<>>) }

P12 == Call(N_plus, <<I1, I2>>)
MainP12 == Def(N_main, <<>>, P12)

\* modules with malformed or unusual top-level forms
Specials ==
    { Module(<<Def(N_f, <<I1>>, P12), MainP12>>),
      Module(<<Def(N_f, <<Symbol(N_a), I1>>, P12), MainP12>>),
      Module(<<Call(N_def, <<Symbol(N_f), List(<<>>), P12, Integer(9)>>),
               MainP12>>),
      Module(<<Call(N_def, <<Symbol(N_f), List(<<>>)>>), MainP12>>),
      Module(<<Call(N_def, <<Symbol(N_f)>>), MainP12>>),
      Module(<<Call(N_def, <<>>), MainP12>>),
      Module(<<Call(N_def, <<I1, List(<<>>), P12>>), MainP12>>),
      Module(<<Call(N_def, <<Symbol(N_f), Symbol(N_x), P12>>), MainP12>>),
      Module(<<Def(N_f, <<Symbol(N_a), Symbol(N_b), Symbol(N_x),
                          Symbol(N_g)>>, P12), MainP12>>),
      Module(<<Def(N_main, <<>>, Call(N_g, <<>>)), Def(N_g, <<>>, P12)>>),
      Module(<<Def(N_f, <<>>, P12), Call(N_f, <<>>), MainP12>>),
      Module(<<MainP12, Def(N_main, <<>>, Call(N_plus, <<I2, I2>>))>>),
      Module(<<Def(N_f, <<>>, Def(N_g, <<Symbol(N_a)>>,
                                  Call(N_plus, <<Symbol(N_a), I1>>))),
               MainP12>>),
      Module(<<Def(N_f, <<Symbol(N_a)>>, Call(N_plus, <<Symbol(N_a), I1>>)),
               Def(N_main, <<>>, Call(N_plus, <<Symbol(N_a), I1>>))>>),
      Module(<<Def(N_f, <<Symbol(N_f)>>, Call(N_plus, <<Symbol(N_f), I1>>)),
               Def(N_main, <<>>, Call(N_f, <<I1>>))>>),
      Module(<<Def(N_a, <<>>, P12),
               Def(N_g, <<Symbol(N_a)>>, Call(N_plus, <<Symbol(N_a), I1>>)),
               Def(N_main, <<>>, Call(N_a, <<>>))>>),
      Module(<<Def(N_g, <<Symbol(N_a), Symbol(N_b), Symbol(N_x)>>,
                   Call(N_plus, <<Symbol(N_a),
                                  Call(N_plus, <<Symbol(N_b), Symbol(N_x)>>)>>)),
               Def(N_f, <<>>, Call(N_g, <<I1, I2, I2>>)),
               Def(N_main, <<>>,
                   Call(N_plus, <<Call(N_f, <<>>),
                                  Call(N_g, <<Integer(0), I1, I2>>)>>))>>),
      Module(<<Def(N_f, <<Symbol(N_a)>>,
                   Call(N_plus, <<Def(N_g, <<>>, P12), Symbol(N_a)>>)),
               MainP12>>),
      Module(<<>>),
      Module(<<I1>>),
      Module(<<Symbol(N_x)>>),
      Module(<<List(<<>>)>>),
      Module(<<List(<<I1, I2>>)>>),
      Module(<<Def(N_main, <<>>, Call(N_plus, <<Float, I1>>))>>),
      Module(<<Def(N_main, <<>>, Call(N_plus, <<Boolean, I1>>))>>) }

Programs ==
    { Module(h \o <<Def(N_main, <<>>, body)>>) : h \in Helpers, body \in Bodies }
    \cup Specials

----------------------------------------------------------------------------
(* The compiler process: one Backend of each kind, each taken through      *)
(* compile and build (write_asm, run_assembler, run_linker), and the       *)
(* executable it produced run once.                                        *)

Backends == {"x86", "llvm"}

\* what Command::output() can give: the tool could not be started, or it
\* ran and exited with a zero or a non-zero status
Outcomes == {"failed", "zero", "nonzero"}

\* values the registers may hold when the runtime enters main
Garbage == {0, 5}

NoExit == [status |-> "none", code |-> 0]

\* reads: the parameter reads observed in the executable's run
Backend_idle ==
    [pc |-> "new", R |-> Backend_new, tool |-> <<>>, exit |-> NoExit,
     reads |-> <<>>]

\* Backend::compile
CompileOf(b, ast) == IF b = "x86" THEN X86_compile(ast) ELSE LLVM_compile(ast)

\* Command::new(..).output().expect(..): only a tool that could not be
\* started panics; the exit status in the Output is not looked at
Expect(outcome) == outcome # "failed"

ToolRan(log, step) ==
    \E i \in 1..Len(log) : log[i].step = step

ToolZero(log, step) ==
    \E i \in 1..Len(log) : log[i].step = step /\ log[i].outcome = "zero"

Compile(b) ==
    /\ be[b].pc = "new"
    /\ LET R == CompileOf(b, prog)
       IN  be' = [be EXCEPT ![b].R = R,
                            ![b].pc = IF R.status = "ok" THEN "compiled"
                                      ELSE "panicked"]
    /\ UNCHANGED <<prog, impl, scopes, hist, kinds>>

\* write_asm: File::create(..).expect, write_all(..).expect
WriteAsm(b, ok) ==
    /\ be[b].pc = "compiled"
    /\ be' = [be EXCEPT
                ![b].tool = Append(@, [step |-> "write",
                                       outcome |-> IF ok THEN "zero"
                                                   ELSE "failed"]),
                ![b].pc = IF ok THEN "written" ELSE "panicked"]
    /\ UNCHANGED <<prog, impl, scopes, hist, kinds>>

\* run_assembler (nasm, or llc)
RunAssembler(b, outcome) ==
    /\ be[b].pc = "written"
    /\ be' = [be EXCEPT
                ![b].tool = Append(@, [step |-> "assembler",
                                       outcome |-> outcome]),
                ![b].pc = IF Expect(outcome) THEN "assembled" ELSE "panicked"]
    /\ UNCHANGED <<prog, impl, scopes, hist, kinds>>

\* run_linker (gcc)
RunLinker(b, outcome) ==
    /\ be[b].pc = "assembled"
    /\ be' = [be EXCEPT
                ![b].tool = Append(@, [step |-> "linker",
                                       outcome |-> outcome]),
                ![b].pc = IF Expect(outcome) THEN "built" ELSE "panicked"]
    /\ UNCHANGED <<prog, impl, scopes, hist, kinds>>

\* the executable, where both tools produced their artifact, is run
Execute(b, garbage) ==
    /\ be[b].pc = "built"
    /\ ToolZero(be[b].tool, "assembler")
    /\ ToolZero(be[b].tool, "linker")
    /\ be' = [be EXCEPT
                ![b].exit = IF b = "x86"
                            THEN X86_execute(be[b].R.out, garbage)
                            ELSE LLVM_execute(be[b].R.out),
                ![b].reads = IF b = "x86"
                             THEN X86_reads(be[b].R.out, garbage)
                             ELSE <<>>,
                ![b].pc = "ran"]
    /\ UNCHANGED <<prog, impl, scopes, hist, kinds>>

Init ==
    /\ prog \in Programs
    /\ be = [b \in Backends |-> Backend_idle]
    /\ impl = "mod"
    /\ scopes = <<>>
    /\ hist = <<>>
    /\ kinds = <<>>

Next ==
    \/ \E b \in Backends : Compile(b)
    \/ \E b \in Backends, ok \in BOOLEAN : WriteAsm(b, ok)
    \/ \E b \in Backends, o \in Outcomes : RunAssembler(b, o)
    \/ \E b \in Backends, o \in Outcomes : RunLinker(b, o)
    \/ \E b \in Backends, g \in Garbage : Execute(b, g)

Spec == Init /\ [][Next]_vars

\* the scope lineage on its own
InitScope ==
    /\ prog = Module(<<>>)
    /\ be = [b \in Backends |-> Backend_idle]
    /\ impl \in ScopeImpls
    /\ scopes = <<Scope_new>>
    /\ hist = << <<>> >>
    /\ kinds = << <<>> >>

NextScope ==
    \/ \E i \in 1..MaxScopes, local \in ScopeNames : ScopeRegister(i, local)
    \/ \E i \in 1..MaxScopes : ScopeSymbol(i)
    \/ \E i \in 1..MaxScopes : ScopeCopy(i)

SpecScope == InitScope /\ [][NextScope]_vars

----------------------------------------------------------------------------
(* Properties.                                                             *)

Distinct(seq) ==
    \A p, q \in 1..Len(seq) : p # q => seq[p] # seq[q]

\* C1 (scope uniqueness): in every Scope value of the lineage, the target
\* names returned by register and symbol so far, those returned before the
\* value was forked included, are pairwise distinct.
C1_ScopeUniqueness ==
    \A i \in 1..Len(hist) : Distinct(hist[i])

\* the lowering of a def the back end b completed
DefsOf(b) == {be[b].R.defs[i] : i \in 1..Len(be[b].R.defs)}

\* the key under which a def binds its function in the enclosing scope:
\* the SSA-IR back end registers the name, the register machine binds none
BindsName(b, e, k) == b = "llvm" /\ k = e.name

\* C2 (scope isolation): once a def is lowered, the enclosing scope binds
\* every name as it did before the def, except that the SSA-IR back end has
\* bound the function's own name to the function's target name: no
\* parameter and no temporary of the body is visible in it, and after
\* compile the top-level scope binds nothing but the top-level destination
\* and defined functions.
C2_ScopeIsolation ==
    \A b \in Backends :
        /\ \A e \in DefsOf(b) :
              \A k \in (DOMAIN e.before) \cup (DOMAIN e.child)
                          \cup (DOMAIN e.after) :
                 IF BindsName(b, e, k)
                 THEN Scope_get(e.after, k) = Some(e.target)
                 ELSE Scope_get(e.after, k) = Scope_get(e.before, k)
        /\ be[b].R.status = "ok" =>
              \A k \in DOMAIN be[b].R.scope :
                 k = N_sym1 \/ \E e \in DefsOf(b) : e.name = k

\* C2 witness: both back ends have lowered a def with parameters whose body
\* scope binds names that the enclosing scope does not bind afterwards.
C2_Witness ==
    \A b \in Backends :
        \E e \in DefsOf(b) :
            /\ Len(e.params) > 0
            /\ \E k \in DOMAIN e.child :
                  k \notin DOMAIN e.after /\ k \notin DOMAIN e.before

\* the lowerings of an unbound Symbol the back end b has begun
Unbound(b) ==
    {i \in 1..Len(be[b].R.ev) :
        be[b].R.ev[i].kind = "symref" /\ be[b].R.ev[i].n = 0}

\* C3 (undefined-reference fatality): lowering a Symbol that the current
\* scope does not bind is the last thing the compilation does: it panics
\* with the undefined-variable message, the build never starts, and the
\* buffer is as long as it was when the lowering of that Symbol began.
C3_UndefinedReferenceFatal ==
    \A b \in Backends : \A i \in Unbound(b) :
        /\ be[b].R.status = "panic"
        /\ be[b].R.panic = "undefined variable"
        /\ be[b].pc = "panicked"
        /\ be[b].tool = <<>>
        /\ i = Len(be[b].R.ev)
        /\ Len(be[b].R.out) = be[b].R.ev[i].pre
        /\ be[b].R.mark = be[b].R.ev[i].pre

\* C3 witness: both back ends were given a Symbol the scope does not bind,
\* after they had emitted code.
C3_Witness ==
    \A b \in Backends :
        \E i \in Unbound(b) : be[b].R.ev[i].pre > 0

RECURSIVE InFragment(_, _)
\* an expression built from integer literals, references to the names in
\* bound, and +, - and * applied to two such expressions
InFragment(e, bound) ==
    \/ e.tag = "Integer"
    \/ e.tag = "Symbol" /\ e.name \in bound
    \/ /\ e.tag = "List"
       /\ Len(e.items) = 3
       /\ e.items[1].tag = "Symbol"
       /\ e.items[1].name \in ArithNames
       /\ InFragment(e.items[2], bound)
       /\ InFragment(e.items[3], bound)

\* (def NAME (PARAM...) BODY) with BODY a List of the fragment
DefInFragment(d) ==
    /\ d.tag = "List"
    /\ Len(d.items) = 4
    /\ d.items[1] = Symbol(N_def)
    /\ d.items[2].tag = "Symbol"
    /\ d.items[3].tag = "List"
    /\ \A i \in 1..Len(d.items[3].items) : d.items[3].items[i].tag = "Symbol"
    /\ d.items[4].tag = "List"
    /\ InFragment(d.items[4],
                  {d.items[3].items[i].name : i \in 1..Len(d.items[3].items)})

\* a module of such defs, the last of them main
ModuleInFragment(m) ==
    /\ m.tag = "List"
    /\ Len(m.items) >= 2
    /\ m.items[1] = Symbol(N_module)
    /\ \A i \in 2..Len(m.items) : DefInFragment(m.items[i])
    /\ m.items[Len(m.items)].items[2] = Symbol(N_main)
    /\ m.items[Len(m.items)].items[3].items = <<>>

\* C4 (backend equivalence): a module of the fragment compiles with both
\* back ends, and the two executables end with the same exit status.
C4_BackendEquivalence ==
    ModuleInFragment(prog) =>
        /\ \A b \in Backends : be[b].pc # "new" => be[b].R.status = "ok"
        /\ (\A b \in Backends : be[b].pc = "ran") =>
               /\ be["x86"].exit.status = "exit"
               /\ be["llvm"].exit = be["x86"].exit

\* the calls the back end b has emitted a call instruction for
CallsOf(b) ==
    {be[b].R.ev[i] : i \in {j \in 1..Len(be[b].R.ev) :
                               be[b].R.ev[j].kind = "call"}}

\* C5 (arity enforcement): no call instruction is emitted for a call of a
\* function defined with two parameters that passes another number of
\* arguments.
C5_ArityEnforcement ==
    \A b \in Backends :
        \A c \in CallsOf(b) : \A e \in DefsOf(b) :
            (e.name = c.name /\ Len(e.params) = 2) => c.n = 2

\* (module (def main () n))
BareLiteralMain(m) ==
    \E n \in Lits : m = Module(<<Def(N_main, <<>>, Integer(n))>>)

\* C6 as stated: (module (def main () n)) compiles with either back end and
\* the program exits with status n.
C6_BareLiteralCompiles ==
    BareLiteralMain(prog) =>
        \A b \in Backends :
            /\ be[b].pc # "new" => be[b].R.status = "ok"
            /\ be[b].pc = "ran" =>
                   be[b].exit = Exit(prog.items[2].items[4].value)

\* C6 (amended): (module (def main () n)) does not compile: either back end
\* panics in split_def_expression, "Third item must be a list in def
\* statement", with nothing emitted for the def, and no build follows.
C6_BareLiteralAborts ==
    BareLiteralMain(prog) =>
        \A b \in Backends :
            be[b].pc # "new" =>
                /\ be[b].pc = "panicked"
                /\ be[b].R.status = "panic"
                /\ be[b].R.at = "split_def_expression"
                /\ be[b].R.panic = "Third item must be a list in def statement"
                /\ Len(be[b].R.out) = be[b].R.mark
                /\ be[b].R.defs = <<>>
                /\ be[b].tool = <<>>

\* C6 witness: both back ends were run on (module (def main () 42)).
C6_Witness ==
    /\ prog = Module(<<Def(N_main, <<>>, Integer(42))>>)
    /\ \A b \in Backends : be[b].pc = "panicked"

ToolNotZero(log, step) ==
    \E i \in 1..Len(log) : log[i].step = step /\ log[i].outcome # "zero"

\* C7 (toolchain failure is fatal): build writes the file, then runs the
\* assembler, then the linker; an assembler that does not start or exits
\* non-zero aborts the build and the linker is not run; a linker that does
\* not start or exits non-zero makes the build fail.
C7_ToolchainFatal ==
    \A b \in Backends :
        LET log == be[b].tool
        IN  /\ \A i \in 1..Len(log) :
                  log[i].step = <<"write", "assembler", "linker">>[i]
            /\ ToolNotZero(log, "assembler") =>
                  be[b].pc = "panicked" /\ ~ToolRan(log, "linker")
            /\ ToolNotZero(log, "linker") => be[b].pc = "panicked"

\* C8 (undefined function, define before use): a call instruction is
\* emitted only for an operator that the current scope binds (or a
\* builtin), and once a def is lowered the enclosing scope binds its name.
C8_UndefinedFunctionFatal ==
    \A b \in Backends :
        /\ \A c \in CallsOf(b) : c.m = 1
        /\ \A e \in DefsOf(b) : e.name \in DOMAIN e.after

\* a panic about the shape of a def form
DefShapePanic(R) ==
    /\ R.status = "panic"
    /\ \/ R.at = "split_def_expression"
       \/ R.at = "compile_define" /\ R.panic # "index out of bounds"

\* C9 (def shape check precedes emission): a def form of the wrong shape
\* aborts with the buffer as it was before the form, and no def with other
\* than three arguments is lowered.
C9_DefShapeFirst ==
    \A b \in Backends :
        /\ DefShapePanic(be[b].R) => Len(be[b].R.out) = be[b].R.mark
        /\ \A e \in DefsOf(b) : e.nargs = 3

\* the applications of +, - and * the back end b has begun to lower
ArithOf(b) ==
    {be[b].R.ev[i] : i \in {j \in 1..Len(be[b].R.ev) :
                               be[b].R.ev[j].kind = "arith"}}

\* C10 (arithmetic is binary only): a compilation that lowers +, - or *
\* applied to other than two argument expressions aborts.
C10_ArithBinaryOnly ==
    \A b \in Backends :
        \A a \in ArithOf(b) : a.n # 2 => be[b].R.status = "panic"

\* C11 (temporary freshness): in every Scope value of the lineage, a name
\* returned by symbol() differs from every target name returned earlier in
\* the lineage, by register or by symbol; in particular two consecutive
\* symbol() calls return different names.
C11_TemporaryFreshness ==
    \A i \in 1..Len(hist) :
        \A q \in 1..Len(hist[i]) :
            kinds[i][q] = "symbol" =>
                \A p \in 1..(q - 1) : hist[i][p] # hist[i][q]

\* the lines of the SSA-IR text that assign a symbol
LLVM_Assigns(out) ==
    {i \in 1..Len(out) : out[i].op \in {"copy", "const", "bin", "call"}}

RECURSIVE LLVM_HeaderOf(_, _)
\* the define line of the function the line i stands in (0: in none)
LLVM_HeaderOf(out, i) ==
    IF i < 1 THEN 0
    ELSE IF out[i].op = "define" THEN i
    ELSE IF out[i].op = "end" THEN 0
    ELSE LLVM_HeaderOf(out, i - 1)

\* the SSA-IR back end has compiled the module
LLVMCompiled == be["llvm"].pc # "new" /\ be["llvm"].R.status = "ok"

\* C12 (SSA single assignment): in the text the SSA-IR back end emits for a
\* module that compiles, no two lines of one function assign the same
\* symbol, and no line assigns a symbol that is a parameter in the header
\* of its function.
C12_SingleAssignment ==
    LLVMCompiled =>
        LET out == be["llvm"].R.out
        IN  \A i \in LLVM_Assigns(out) :
                LET h == LLVM_HeaderOf(out, i)
                IN  /\ \A j \in LLVM_Assigns(out) :
                          (j # i /\ LLVM_HeaderOf(out, j) = h)
                              => out[j].dst # out[i].dst
                    /\ h > 0 =>
                          \A p \in 1..Len(out[h].args) :
                              out[h].args[p] # out[i].dst

\* the parameter reads of the register-machine executable's run
ReadsOf == {be["x86"].reads[i] : i \in 1..Len(be["x86"].reads)}

\* every def the register-machine back end lowered binds each parameter, in
\* the scope of the body, to the argument register of its position
ParamsInArgumentRegisters ==
    \A e \in DefsOf("x86") :
        \A i \in 1..Len(e.params) :
            (\A j \in (i + 1)..Len(e.params) :
                e.params[j].name # e.params[i].name)
                => Scope_get(e.child, e.params[i].name)
                       = Some(PARAM_REGISTERS[i])

AbortedForNoDestination(R) ==
    /\ R.status = "panic"
    /\ R.at = "compile_call"
    /\ R.panic = "unwrap on None"

\* C14 (absent destination is allowed for calls): in neither back end is
\* the lowering of a call of a user function aborted for want of a
\* destination, the top-level forms of a module included; and every call
\* instruction the SSA-IR back end emits assigns the return value to a
\* destination that was given.
C14_AbsentDestinationAllowed ==
    /\ \A b \in Backends : ~AbortedForNoDestination(be[b].R)
    /\ \A i \in 1..Len(be["llvm"].R.out) :
          be["llvm"].R.out[i].op = "call" => be["llvm"].R.out[i].dst # <<>>

RECURSIVE StackScan(_, _, _)
\* the register-machine text from line i on, read with open: the functions
\* whose label has been met and whose ret has not ("fn"), and above each
\* the registers pushed in it and not popped.  A pop must name the register
\* on top; a ret must find no pushed register above its function; at the
\* end no pushed register is left (the scaffold main ends in a syscall).
StackScan(out, i, open) ==
    IF i > Len(out) THEN \A p \in 1..Len(open) : open[p] = "fn"
    ELSE LET line == out[i]
             top == open[Len(open)]
             rest == SubSeq(open, 1, Len(open) - 1)
         IN  CASE line.op = "label" -> StackScan(out, i + 1, Append(open, "fn"))
               [] line.op = "push" ->
                    StackScan(out, i + 1, Append(open, line.src))
               [] line.op = "pop" ->
                    /\ open # <<>>
                    /\ top = line.dst
                    /\ StackScan(out, i + 1, rest)
               [] line.op = "ret" ->
                    /\ open # <<>>
                    /\ top = "fn"
                    /\ StackScan(out, i + 1, rest)
               [] OTHER -> StackScan(out, i + 1, open)

\* the register-machine back end has compiled the module
X86Compiled == be["x86"].pc # "new" /\ be["x86"].R.status = "ok"

\* C15 (stack balance): in the text the register-machine back end emits for
\* a module that compiles, the pushes and pops of every function are
\* balanced and properly nested between its label and its ret: a pop names
\* the register of the most recent unmatched push of its function, and at a
\* ret no push of its function is unmatched.
C15_StackBalance ==
    X86Compiled => StackScan(be["x86"].R.out, 1, <<>>)

\* C15 witness: a compiled module with a def of three parameters, calls of
\* no, two and three arguments, and a call lowered as an argument of
\* another call while that call's saves are on the stack.
C15_Witness ==
    /\ X86Compiled
    /\ \E e \in DefsOf("x86") : Len(e.params) = 3
    /\ \A n \in {0, 2, 3} : \E c \in CallsOf("x86") : c.n = n
    /\ LET out == be["x86"].R.out
       IN  \E i \in 1..(Len(out) - 3) :
               /\ out[i].op = "push" /\ out[i + 1].op = "push"
               /\ out[i + 2].op = "mov"
               /\ out[i + 3].op = "push"

\* the names the program defines, as the SSA-IR back end lowered them:
\* the functions and their parameters
DefinedNames ==
    {e.name : e \in DefsOf("llvm")} \cup
    UNION {{e.params[i].name : i \in 1..Len(e.params)} : e \in DefsOf("llvm")}

\* the Symbols the SSA-IR back end found bound in the scope
Resolved ==
    {be["llvm"].R.ev[i].name :
        i \in {j \in 1..Len(be["llvm"].R.ev) :
                  be["llvm"].R.ev[j].kind = "symref"
                  /\ be["llvm"].R.ev[j].n = 1}}

\* C16 (user references never resolve to temporaries): in a module the
\* SSA-IR back end compiles, every Symbol that resolved names a function or
\* a parameter the program defines (so a reference to an undefined name
\* such as sym1 does not resolve), and where a def's body has been lowered
\* each parameter still resolves to the target name it has in the header
\* of the function.
C16_NoTemporaryResolution ==
    LLVMCompiled =>
        /\ Resolved \subseteq DefinedNames
        /\ \A e \in DefsOf("llvm") :
              \A h \in LLVM_defines(be["llvm"].R.out, e.target) :
                 \A i \in 1..Len(e.params) :
                    (\A j \in (i + 1)..Len(e.params) :
                        e.params[j].name # e.params[i].name)
                        => Scope_get(e.child, e.params[i].name)
                               = Some(be["llvm"].R.out[h].args[i])

\* C17 (label integrity): in the text the register-machine back end emits
\* for a module that compiles, every label (plus, main, program_main and
\* the user functions) is defined exactly once, and every call instruction,
\* the scaffold's call of program_main included, names a label the text
\* defines.
C17_LabelIntegrity ==
    X86Compiled =>
        LET out == be["x86"].R.out
        IN  \A i \in 1..Len(out) :
                /\ out[i].op = "label"
                      => X86_labels(out, out[i].name) = {i}
                /\ out[i].op = "call"
                      => X86_labels(out, out[i].name) # {}

====
